---- MODULE Spec2Model ----
(***************************************************************************)
(* A model of the concurrent task pool: the circular array queue, the map  *)
(* set of running tasks, the worker loop, TaskPool.Start with its signal   *)
(* goroutine and control loop, and the user routine's calls of Retry and   *)
(* Interrupt.  A task is a natural number; 0 is the zero value of T.       *)
(***************************************************************************)
EXTENDS Integers, Sequences, FiniteSets, TLC

\* ------------------------------------------------------------------ bounds
\* Longest enumerated initial task list.
MaxLen == 2
\* Largest concurrency degree (number of workers).
MaxConcurrent == 2
\* Largest number of Retry calls in one run.
MaxRetry == 1
\* Length of the one long task list 1..InterruptListLen run by a single worker.
InterruptListLen == 5

\* The zero value of T; the other task values are 1, 2, ...
zero == 0
Task == 0..MaxLen
AllTask == 0..(IF MaxLen > InterruptListLen THEN MaxLen ELSE InterruptListLen)
Workers == 1..MaxConcurrent

\* -------------------------------------------------------------- ArrayQueue
\* A queue is [data, front, size]; data[i + 1] is the slot of Go index i.

\* make([]T, n)
makeSlice(n) == [i \in 1..n |-> zero]

\* Go's built-in copy(dst, src): min(len(dst), len(src)) elements.
goCopy(dst, src) ==
    [i \in 1..Len(dst) |-> IF i <= Len(src) THEN src[i] ELSE dst[i]]

\* Go's s[lo:hi] on 0-based indices.
slice(s, lo, hi) == [i \in 1..(hi - lo) |-> s[lo + i]]

NewArrayQueueFromSlice(s) ==
    [data |-> goCopy(makeSlice(Len(s)), s), front |-> 0, size |-> Len(s)]

queueFull(q) == q.size = Len(q.data)

getRear(q) == (q.front + q.size) % Len(q.data)

\* Mutant of copy: the buffer is copied as it lies, not from the head on.
copyRaw(q, targetSize) ==
    IF q.size = 0 THEN <<>>
    ELSE goCopy(makeSlice(IF targetSize < q.size THEN q.size ELSE targetSize),
                q.data)

copy(q, targetSize) ==
    IF q.size = 0 THEN <<>>
    ELSE LET n == IF targetSize < q.size THEN q.size ELSE targetSize
             rear == getRear(q)
             newCopy == makeSlice(n)
         IN IF rear - 1 >= q.front
            THEN goCopy(newCopy, slice(q.data, q.front, rear))
            ELSE LET frontToEnd == slice(q.data, q.front, Len(q.data))
                     startToRear == slice(q.data, 0, rear)
                     first == goCopy(newCopy, frontToEnd)
                     k == Len(frontToEnd)
                 IN [i \in 1..n |->
                        IF i > k /\ i - k <= Len(startToRear)
                        THEN startToRear[i - k] ELSE first[i]]

scale(q) == [q EXCEPT !.data = copy(q, Len(q.data) * 2), !.front = 0]

Offer(q, element) ==
    LET q1 == IF queueFull(q) THEN scale(q) ELSE q
    IN [q1 EXCEPT !.data[getRear(q1) + 1] = element, !.size = q1.size + 1]

\* Mutant of Peek: the element at the tail is returned.
PeekLast(q) ==
    IF q.size = 0 THEN zero
    ELSE q.data[((q.front + q.size - 1) % Len(q.data)) + 1]

\* Mutant of Peek: the first slot of the buffer is taken for the head.
PeekFirstSlot(q) == IF q.size = 0 THEN zero ELSE q.data[1]

Peek(q) == IF q.size = 0 THEN zero ELSE q.data[q.front + 1]

\* Mutant of Poll: the head element is returned and left in the queue.
PollKeeps(q) == [element |-> Peek(q), queue |-> q]

\* Poll: the returned element and the queue it leaves.
Poll(q) ==
    [element |-> Peek(q),
     queue |-> IF q.size # 0
               THEN [q EXCEPT !.front = (q.front + 1) % Len(q.data),
                              !.size = q.size - 1]
               ELSE q]

IsEmpty(q) == q.size = 0

\* Mutant of ToSlice: the copy has the buffer's length.
ToSliceWhole(q) == copy(q, Len(q.data))

ToSlice(q) == copy(q, q.size)

\* ------------------------------------------------------------------ mapSet
\* Mutant of add: the map is made anew for the item.
addAnew(set, item) == {item}

add(set, item) == set \cup {item}

\* Mutant of remove: the whole set is cleared.
removeClears(set, item) == {}

remove(set, item) == set \ {item}

contains(set, item) == item \in set

size(set) == Cardinality(set)

clear(set) == {}

\* -------------------------------------------------------------------- state
VARIABLES
    taskList,        \* the task list given to NewTaskPool
    concurrent,      \* basePool.concurrent
    shutdown,        \* TaskPool.shutdown # nil
    taskQueue,       \* basePool.taskQueue
    runningTasks,    \* basePool.runningTasks
    isInterrupt,     \* basePool.isInterrupt
    workerShutdown,  \* Start's local workerShutdown, shared with the workers
    startPc,         \* where Start is
    created,         \* Start's loop counter i: workers created so far
    signalPc,        \* where Start's signal goroutine is
    workerPc,        \* where each worker goroutine is
    workerTask,      \* each worker's local variable task
    invoked,         \* history: per task value, routine invocations begun
    returned,        \* history: per task value, routine invocations returned
    retried,         \* history: per task value, Retry calls
    interruptedBy,   \* history: the task whose routine first set the flag (0: none)
    outcome,         \* history: how the control loop ended
    sawAllDone       \* history: during the control loop's IsAllDone call,
                     \* queue and running set were empty at one instant

\* An ArrayQueue used on its own, through its exported methods.
VARIABLES
    queue,           \* the ArrayQueue: its fields data, front, size
    fifo,            \* history: the elements put in and not yet taken out, in order
    call,            \* history: the last call made on the queue and what it returned
    offers,          \* history: the number of Offer calls made on the queue
    panicked,        \* a call on the queue ended in a run-time panic
    writer,          \* where the goroutine inside Offer, Poll or Clear is
    torn             \* history: Size, IsEmpty or Peek read the fields while
                     \* another goroutine was between two updates of them

\* The automatic saving of the task list, and the result collection of a
\* ReturnableTaskPool.
VARIABLES
    saveTicker,      \* basePool.saveTicker: nil, running or stopped, and the
                     \* number of ticks in its channel C (capacity 1)
    autoSave,        \* where the goroutine of EnableTaskAutoSave is, with the
                     \* locals of its SaveTaskList call
    saveResult,      \* history: how the last SaveTaskList call of the loop ended
    ignoreEmpty,     \* the argument of ReturnableTaskPool.Start
    resultList,      \* Start's local resultList, shared with the workers
    workerResult,    \* each returnable worker's local variable result
    resultCount,     \* history: per result value, routine invocations that returned it
    returnedList     \* history: the slice ReturnableTaskPool.Start returned

\* The running set with its read/write lock, used by a goroutine that takes
\* its snapshot and by goroutines that add and remove.
VARIABLES
    rwLock,          \* mapSet.lock: the number of read locks held, the goroutine
                     \* that holds the write lock, the one that waits for it
    reader,          \* where the goroutine inside toSlice is
    writers          \* where each goroutine inside add or remove is, with
                     \* its method and argument

queueVars == <<queue, fifo, call, offers, panicked, writer, torn>>

lockVars == <<rwLock, reader, writers>>

saveVars == <<saveTicker, autoSave, saveResult>>

resultVars == <<ignoreEmpty, resultList, workerResult, resultCount, returnedList>>

\* What a step of the TaskPool proper leaves alone.
otherVars == <<queueVars, lockVars, saveVars, resultVars>>

poolState == <<taskList, concurrent, shutdown, taskQueue, runningTasks, isInterrupt,
               workerShutdown, startPc, created, signalPc, workerPc, workerTask,
               invoked, returned, retried, interruptedBy, outcome, sawAllDone,
               saveTicker, autoSave, saveResult,
               ignoreEmpty, resultList, workerResult, resultCount, returnedList,
               rwLock, reader, writers>>

vars == <<taskList, concurrent, shutdown, taskQueue, runningTasks, isInterrupt,
          workerShutdown, startPc, created, signalPc, workerPc, workerTask,
          invoked, returned, retried, interruptedBy, outcome, sawAllDone,
          queue, fifo, call, offers, panicked, writer, torn,
          saveTicker, autoSave, saveResult,
          ignoreEmpty, resultList, workerResult, resultCount, returnedList,
          rwLock, reader, writers>>

poolVars == <<taskList, concurrent, shutdown>>
history == <<invoked, returned, retried, interruptedBy, outcome>>

RECURSIVE Sum(_, _)
Sum(f, S) == IF S = {} THEN 0
             ELSE LET x == CHOOSE y \in S : TRUE IN f[x] + Sum(f, S \ {x})

\* Queue and running set are both empty in the state a step leads to.
BothEmptyNext == taskQueue'.size = 0 /\ runningTasks' = {}

\* The history of the control loop's current IsAllDone call (from its
\* invocation, startPc = "isEmpty", to its return): was there an instant at
\* which the queue and the running set were both empty.
Observe ==
    sawAllDone' =
        IF startPc' \in {"isEmpty", "size"}
        THEN (startPc \in {"isEmpty", "size"} /\ sawAllDone) \/ BothEmptyNext
        ELSE IF startPc' = "stop" /\ outcome' = "Completed"
        THEN sawAllDone \/ BothEmptyNext
        ELSE FALSE

\* The task lists a pool is constructed from: every list over Task up to
\* MaxLen, for every concurrency degree, and the list 1..InterruptListLen for
\* a single worker.  The pool never looks into a task, so of the lists that
\* differ only in the names of their non-zero tasks one is kept: the one
\* whose non-zero values first occur in the order 1, 2, ...
FirstOccurrenceOrdered(l) ==
    \A i \in 1..Len(l) :
        l[i] > 1 => \E j \in 1..(i - 1) : l[j] = l[i] - 1
TaskLists ==
    {l \in UNION {[1..n -> Task] : n \in 0..MaxLen} : FirstOccurrenceOrdered(l)}
InterruptList == [i \in 1..InterruptListLen |-> i]
Configs ==
    {<<c, l>> : c \in 1..MaxConcurrent, l \in TaskLists} \cup {<<1, InterruptList>>}

\* No goroutine is inside a method of the running set.
NoLocking ==
    /\ rwLock = [readers |-> 0, writer |-> 0, waiting |-> 0]
    /\ reader = [pc |-> "idle", slice |-> <<>>]
    /\ writers = [w \in Workers |-> [pc |-> "idle", op |-> "none", item |-> zero]]

\* No automatic saving has been enabled.
NoAutoSave ==
    /\ saveTicker = [state |-> "nil", C |-> 0]
    /\ autoSave = [pc |-> "none", queued |-> <<>>, all |-> <<>>]
    /\ saveResult = "none"

\* The pool collects no results.
NoResults ==
    /\ ignoreEmpty = FALSE
    /\ resultList = <<>>
    /\ workerResult = [w \in Workers |-> zero]
    /\ resultCount = [r \in AllTask |-> 0]
    /\ returnedList = <<>>

\* NewTaskPool
Init ==
    /\ \E cfg \in Configs :
          /\ concurrent = cfg[1]
          /\ taskList = cfg[2]
          /\ taskQueue = NewArrayQueueFromSlice(cfg[2])
    /\ shutdown \in BOOLEAN
    /\ runningTasks = {}
    /\ isInterrupt = FALSE
    /\ workerShutdown = FALSE
    /\ startPc = "created"
    /\ created = 0
    /\ signalPc = "none"
    /\ workerPc = [w \in Workers |-> "none"]
    /\ workerTask = [w \in Workers |-> zero]
    /\ invoked = [t \in AllTask |-> 0]
    /\ returned = [t \in AllTask |-> 0]
    /\ retried = [t \in AllTask |-> 0]
    /\ interruptedBy = zero
    /\ outcome = "none"
    /\ sawAllDone = FALSE
    /\ NoAutoSave
    /\ NoLocking
    /\ NoResults
    /\ queue = NewArrayQueueFromSlice(<<>>)
    /\ fifo = <<>>
    /\ call = [op |-> "none", ret |-> zero]
    /\ offers = 0
    /\ panicked = FALSE
    /\ writer = [pc |-> "idle", element |-> zero]
    /\ torn = FALSE

\* basePool.IsAllDone, evaluated at one instant.
IsAllDone == IsEmpty(taskQueue) /\ size(runningTasks) = 0

\* Mutant of Interrupt: the flag is flipped instead of set.
InterruptToggles == isInterrupt' = ~isInterrupt

\* basePool.Interrupt
Interrupt == isInterrupt' = TRUE

\* Mutant of Retry: the task is put at the head of the queue.
RetryAtHead(task) ==
    taskQueue' = NewArrayQueueFromSlice(<<task>> \o ToSlice(taskQueue))

\* basePool.Retry
Retry(task) == taskQueue' = Offer(taskQueue, task)

\* ------------------------------------------------------------------- Start
\* Start is called: workerShutdown := false and, with a shutdown callback,
\* the signal goroutine is started.
StartBegin ==
    /\ startPc = "created"
    /\ workerShutdown' = FALSE
    /\ signalPc' = IF shutdown THEN "wait" ELSE "none"
    /\ startPc' = "create"
    /\ UNCHANGED <<poolVars, taskQueue, runningTasks, isInterrupt, created,
                   workerPc, workerTask, history>>
    /\ Observe
    /\ UNCHANGED otherVars

\* Mutant of StartCreateWorker: the creation loop runs once too often.
StartCreateWorkerOneMore ==
    /\ startPc = "create"
    /\ created <= concurrent
    /\ created < MaxConcurrent
    /\ workerPc' = [workerPc EXCEPT ![created + 1] = "check"]
    /\ created' = created + 1
    /\ UNCHANGED <<poolVars, taskQueue, runningTasks, isInterrupt, workerShutdown,
                   startPc, signalPc, workerTask, history>>
    /\ Observe
    /\ UNCHANGED otherVars

\* One iteration of the worker creation loop: newWorker, start (go func).
StartCreateWorker ==
    /\ startPc = "create"
    /\ created < concurrent
    /\ workerPc' = [workerPc EXCEPT ![created + 1] = "check"]
    /\ created' = created + 1
    /\ UNCHANGED <<poolVars, taskQueue, runningTasks, isInterrupt, workerShutdown,
                   startPc, signalPc, workerTask, history>>
    /\ Observe
    /\ UNCHANGED otherVars

\* The creation loop ends; the control loop begins.
StartCreated ==
    /\ startPc = "create"
    /\ created >= concurrent
    /\ startPc' = "loop"
    /\ UNCHANGED <<poolVars, taskQueue, runningTasks, isInterrupt, workerShutdown,
                   created, signalPc, workerPc, workerTask, history>>
    /\ Observe
    /\ UNCHANGED otherVars

\* Mutant of LoopInterrupt: the control loop does not test the interrupt flag.
LoopIgnoresInterrupt ==
    /\ startPc = "loop"
    /\ startPc' = "isEmpty"
    /\ UNCHANGED <<poolVars, taskQueue, runningTasks, isInterrupt, workerShutdown,
                   created, signalPc, workerPc, workerTask, history>>
    /\ Observe
    /\ UNCHANGED otherVars

\* Control loop condition, first operand: !pool.isInterrupt
LoopInterrupt ==
    /\ startPc = "loop"
    /\ startPc' = IF isInterrupt THEN "stop" ELSE "isEmpty"
    /\ outcome' = IF isInterrupt THEN "Interrupted" ELSE outcome
    /\ UNCHANGED <<poolVars, taskQueue, runningTasks, isInterrupt, workerShutdown,
                   created, signalPc, workerPc, workerTask, invoked, returned,
                   retried, interruptedBy>>
    /\ Observe
    /\ UNCHANGED otherVars

\* IsAllDone, first read: pool.taskQueue.isEmpty()
LoopIsEmpty ==
    /\ startPc = "isEmpty"
    /\ startPc' = IF IsEmpty(taskQueue) THEN "size" ELSE "lookup"
    /\ UNCHANGED <<poolVars, taskQueue, runningTasks, isInterrupt, workerShutdown,
                   created, signalPc, workerPc, workerTask, history>>
    /\ Observe
    /\ UNCHANGED otherVars

\* Mutant of LoopSize: the test of the running set's size is inverted.
LoopSizeInverted ==
    /\ startPc = "size"
    /\ startPc' = IF size(runningTasks) # 0 THEN "stop" ELSE "lookup"
    /\ outcome' = IF size(runningTasks) # 0 THEN "Completed" ELSE outcome
    /\ UNCHANGED <<poolVars, taskQueue, runningTasks, isInterrupt, workerShutdown,
                   created, signalPc, workerPc, workerTask, invoked, returned,
                   retried, interruptedBy>>
    /\ Observe
    /\ UNCHANGED otherVars

\* IsAllDone, second read: pool.runningTasks.size() == 0
LoopSize ==
    /\ startPc = "size"
    /\ startPc' = IF size(runningTasks) = 0 THEN "stop" ELSE "lookup"
    /\ outcome' = IF size(runningTasks) = 0 THEN "Completed" ELSE outcome
    /\ UNCHANGED <<poolVars, taskQueue, runningTasks, isInterrupt, workerShutdown,
                   created, signalPc, workerPc, workerTask, invoked, returned,
                   retried, interruptedBy>>
    /\ Observe
    /\ UNCHANGED otherVars

\* Loop body: the lookup callback (if any) is called and returns.
LoopLookup ==
    /\ startPc = "lookup"
    /\ startPc' = "loop"
    /\ UNCHANGED <<poolVars, taskQueue, runningTasks, isInterrupt, workerShutdown,
                   created, signalPc, workerPc, workerTask, history>>
    /\ Observe
    /\ UNCHANGED otherVars

\* Mutant of StartStop: the waiting goroutine takes the closing of the channel
\* for a signal.
StartStopCloseNotifies ==
    /\ startPc = "stop"
    /\ workerShutdown' = TRUE
    /\ signalPc' = IF signalPc = "wait" THEN "shutdown" ELSE signalPc
    /\ startPc' = "done"
    /\ UNCHANGED <<poolVars, taskQueue, runningTasks, isInterrupt, created,
                   workerPc, workerTask, history>>
    /\ Observe
    /\ UNCHANGED otherVars

\* After the loop: workerShutdown = true, the signal channel is closed (the
\* waiting goroutine receives nil and ends), and Start returns.
StartStop ==
    /\ startPc = "stop"
    /\ workerShutdown' = TRUE
    /\ signalPc' = IF signalPc = "wait" THEN "exit" ELSE signalPc
    /\ startPc' = "done"
    /\ UNCHANGED <<poolVars, taskQueue, runningTasks, isInterrupt, created,
                   workerPc, workerTask, history>>
    /\ Observe
    /\ UNCHANGED otherVars

\* --------------------------------------------------------- signal goroutine
\* A termination signal is received: workerShutdown = true.
SignalReceive ==
    /\ signalPc = "wait"
    /\ workerShutdown' = TRUE
    /\ signalPc' = "shutdown"
    /\ UNCHANGED <<poolVars, taskQueue, runningTasks, isInterrupt, startPc,
                   created, workerPc, workerTask, history>>
    /\ Observe
    /\ UNCHANGED otherVars

\* Mutant of SignalShutdown: the flag is set before the callback is called.
SignalShutdownSetsFlag ==
    /\ signalPc = "shutdown"
    /\ signalPc' = "interrupt"
    /\ isInterrupt' = TRUE
    /\ UNCHANGED <<poolVars, taskQueue, runningTasks, workerShutdown,
                   startPc, created, workerPc, workerTask, history>>
    /\ Observe
    /\ UNCHANGED otherVars

\* pool.shutdown(pool) is called and returns.
SignalShutdown ==
    /\ signalPc = "shutdown"
    /\ signalPc' = "interrupt"
    /\ UNCHANGED <<poolVars, taskQueue, runningTasks, isInterrupt, workerShutdown,
                   startPc, created, workerPc, workerTask, history>>
    /\ Observe
    /\ UNCHANGED otherVars

\* pool.isInterrupt = true
SignalInterrupt ==
    /\ signalPc = "interrupt"
    /\ isInterrupt' = TRUE
    /\ signalPc' = "exit"
    /\ UNCHANGED <<poolVars, taskQueue, runningTasks, workerShutdown, startPc,
                   created, workerPc, workerTask, history>>
    /\ Observe
    /\ UNCHANGED otherVars

\* ------------------------------------------------------------------ worker
\* Loop condition: for !*isShutdown
WorkerCheck(w) ==
    /\ workerPc[w] = "check"
    /\ workerPc' = [workerPc EXCEPT ![w] = IF workerShutdown THEN "exit" ELSE "poll"]
    /\ UNCHANGED <<poolVars, taskQueue, runningTasks, isInterrupt, workerShutdown,
                   startPc, created, signalPc, workerTask, history>>
    /\ Observe
    /\ UNCHANGED otherVars

\* Mutant of WorkerPoll: the dequeued value is not compared with the zero value.
WorkerPollRunsZero(w) ==
    /\ workerPc[w] = "poll"
    /\ LET p == Poll(taskQueue)
       IN /\ taskQueue' = p.queue
          /\ workerTask' = [workerTask EXCEPT ![w] = p.element]
          /\ workerPc' = [workerPc EXCEPT ![w] = "add"]
    /\ UNCHANGED <<poolVars, runningTasks, isInterrupt, workerShutdown, startPc,
                   created, signalPc, history>>
    /\ Observe
    /\ UNCHANGED otherVars

\* task := pool.taskQueue.poll(); if task == zero { continue }
WorkerPoll(w) ==
    /\ workerPc[w] = "poll"
    /\ LET p == Poll(taskQueue)
       IN /\ taskQueue' = p.queue
          /\ workerTask' = [workerTask EXCEPT ![w] = p.element]
          /\ workerPc' = [workerPc EXCEPT ![w] =
                             IF p.element = zero THEN "check" ELSE "add"]
    /\ UNCHANGED <<poolVars, runningTasks, isInterrupt, workerShutdown, startPc,
                   created, signalPc, history>>
    /\ Observe
    /\ UNCHANGED otherVars

\* Mutant of WorkerAdd: a worker that finds the stop flag set after its
\* dequeue ends without running the task it holds.
WorkerAddUnlessShutdown(w) ==
    /\ workerPc[w] = "add"
    /\ IF workerShutdown
       THEN /\ workerPc' = [workerPc EXCEPT ![w] = "exit"]
            /\ UNCHANGED <<runningTasks, invoked>>
       ELSE /\ runningTasks' = add(runningTasks, workerTask[w])
            /\ invoked' = [invoked EXCEPT ![workerTask[w]] = @ + 1]
            /\ workerPc' = [workerPc EXCEPT ![w] = "run"]
    /\ UNCHANGED <<poolVars, taskQueue, isInterrupt, workerShutdown, startPc,
                   created, signalPc, workerTask, returned, retried,
                   interruptedBy, outcome>>
    /\ Observe
    /\ UNCHANGED otherVars

\* pool.runningTasks.add(task), then worker.run(task, pool) is entered.
WorkerAdd(w) ==
    /\ workerPc[w] = "add"
    /\ runningTasks' = add(runningTasks, workerTask[w])
    /\ invoked' = [invoked EXCEPT ![workerTask[w]] = @ + 1]
    /\ workerPc' = [workerPc EXCEPT ![w] = "run"]
    /\ UNCHANGED <<poolVars, taskQueue, isInterrupt, workerShutdown, startPc,
                   created, signalPc, workerTask, returned, retried,
                   interruptedBy, outcome>>
    /\ Observe
    /\ UNCHANGED otherVars

\* The user routine calls pool.Retry(task).
RoutineRetry(w) ==
    /\ workerPc[w] = "run"
    /\ Sum(retried, AllTask) < MaxRetry
    /\ Retry(workerTask[w])
    /\ retried' = [retried EXCEPT ![workerTask[w]] = @ + 1]
    /\ UNCHANGED <<poolVars, runningTasks, isInterrupt, workerShutdown, startPc,
                   created, signalPc, workerPc, workerTask, invoked, returned,
                   interruptedBy, outcome>>
    /\ Observe
    /\ UNCHANGED otherVars

\* The user routine calls pool.Interrupt().
RoutineInterrupt(w) ==
    /\ workerPc[w] = "run"
    /\ Interrupt
    /\ interruptedBy' = IF isInterrupt THEN interruptedBy ELSE workerTask[w]
    /\ UNCHANGED <<poolVars, taskQueue, runningTasks, workerShutdown, startPc,
                   created, signalPc, workerPc, workerTask, invoked, returned,
                   retried, outcome>>
    /\ Observe
    /\ UNCHANGED otherVars

\* The user routine returns.
RoutineReturn(w) ==
    /\ workerPc[w] = "run"
    /\ returned' = [returned EXCEPT ![workerTask[w]] = @ + 1]
    /\ workerPc' = [workerPc EXCEPT ![w] = "remove"]
    /\ UNCHANGED <<poolVars, taskQueue, runningTasks, isInterrupt, workerShutdown,
                   startPc, created, signalPc, workerTask, invoked, retried,
                   interruptedBy, outcome>>
    /\ Observe
    /\ UNCHANGED otherVars

\* Mutant of WorkerRemove: the worker ends after its first task.
WorkerRemoveExits(w) ==
    /\ workerPc[w] = "remove"
    /\ runningTasks' = remove(runningTasks, workerTask[w])
    /\ workerPc' = [workerPc EXCEPT ![w] = "exit"]
    /\ UNCHANGED <<poolVars, taskQueue, isInterrupt, workerShutdown, startPc,
                   created, signalPc, workerTask, history>>
    /\ Observe
    /\ UNCHANGED otherVars

\* Mutant of WorkerRemove: the task stays in the running set.
WorkerRemoveKeeps(w) ==
    /\ workerPc[w] = "remove"
    /\ workerPc' = [workerPc EXCEPT ![w] = "check"]
    /\ UNCHANGED <<poolVars, taskQueue, runningTasks, isInterrupt, workerShutdown,
                   startPc, created, signalPc, workerTask, history>>
    /\ Observe
    /\ UNCHANGED otherVars

\* pool.runningTasks.remove(task)
WorkerRemove(w) ==
    /\ workerPc[w] = "remove"
    /\ runningTasks' = remove(runningTasks, workerTask[w])
    /\ workerPc' = [workerPc EXCEPT ![w] = "check"]
    /\ UNCHANGED <<poolVars, taskQueue, isInterrupt, workerShutdown, startPc,
                   created, signalPc, workerTask, history>>
    /\ Observe
    /\ UNCHANGED otherVars

\* ---------------------------------------------------------- specification
StartStep ==
    \/ StartBegin
    \/ StartCreateWorker
    \/ StartCreated
    \/ LoopInterrupt
    \/ LoopIsEmpty
    \/ LoopSize
    \/ LoopLookup
    \/ StartStop

Next ==
    \/ StartBegin
    \/ StartCreateWorker
    \/ StartCreated
    \/ LoopInterrupt
    \/ LoopIsEmpty
    \/ LoopSize
    \/ LoopLookup
    \/ StartStop
    \/ SignalReceive
    \/ SignalShutdown
    \/ SignalInterrupt
    \/ \E w \in Workers : WorkerCheck(w)
    \/ \E w \in Workers : WorkerPoll(w)
    \/ \E w \in Workers : WorkerAdd(w)
    \/ \E w \in Workers : RoutineRetry(w)
    \/ \E w \in Workers : RoutineInterrupt(w)
    \/ \E w \in Workers : RoutineReturn(w)
    \/ \E w \in Workers : WorkerRemove(w)

Spec == Init /\ [][Next]_vars

\* The control loop of Start is scheduled: each of its steps, once enabled,
\* is eventually taken.
FairSpec == Spec /\ WF_vars(StartStep)

\* A worker's own steps: its loop and the return of the routine it runs.
WorkerStep(w) ==
    \/ WorkerCheck(w)
    \/ WorkerPoll(w)
    \/ WorkerAdd(w)
    \/ RoutineReturn(w)
    \/ WorkerRemove(w)

\* Start's goroutine and every worker goroutine are scheduled, and every
\* routine invocation returns.
LiveSpec == Spec /\ WF_vars(StartStep) /\ \A w \in Workers : WF_vars(WorkerStep(w))

\* Every worker goroutine is scheduled and every routine invocation returns;
\* nothing is assumed of Start's goroutine.
WorkSpec == Spec /\ \A w \in Workers : WF_vars(WorkerStep(w))

\* ------------------------------------------------- the ArrayQueue on its own
\* Initial capacity of NewArrayQueue.
DefaultCapacity == 10
\* Longest slice given to NewArrayQueueFromSlice.
MaxSlice == 3
\* Largest number of Offer calls made on one queue.
MaxOffers == 12

NewArrayQueue == [data |-> makeSlice(DefaultCapacity), front |-> 0, size |-> 0]

Size(q) == q.size

\* Mutant of Clear: the element at the head stays in the queue.
ClearKeepsHead(q) == [q EXCEPT !.size = IF q.size = 0 THEN 0 ELSE 1]

\* Mutant of Clear: only the head index is reset.
ClearFrontOnly(q) == [q EXCEPT !.front = 0]

Clear(q) == [q EXCEPT !.size = 0, !.front = 0]

\* Offer ends in a run-time panic: after the scale of a full queue the buffer
\* has length 0 and getRear divides by it.
OfferPanics(q) ==
    LET q1 == IF queueFull(q) THEN scale(q) ELSE q IN Len(q1.data) = 0

\* The pool is not used while the queue is exercised on its own.
PoolIdle ==
    /\ concurrent = 1
    /\ taskList = <<>>
    /\ taskQueue = NewArrayQueueFromSlice(<<>>)
    /\ shutdown = FALSE
    /\ runningTasks = {}
    /\ isInterrupt = FALSE
    /\ workerShutdown = FALSE
    /\ startPc = "created"
    /\ created = 0
    /\ signalPc = "none"
    /\ workerPc = [w \in Workers |-> "none"]
    /\ workerTask = [w \in Workers |-> zero]
    /\ invoked = [t \in AllTask |-> 0]
    /\ returned = [t \in AllTask |-> 0]
    /\ retried = [t \in AllTask |-> 0]
    /\ interruptedBy = zero
    /\ outcome = "none"
    /\ sawAllDone = FALSE
    /\ NoAutoSave
    /\ NoLocking
    /\ NoResults

\* The slices a queue is made from: <<1, ..., n>>.
Slices == {[i \in 1..n |-> i] : n \in 0..MaxSlice}

\* NewArrayQueue() or NewArrayQueueFromSlice(s)
QueueInit ==
    /\ PoolIdle
    /\ \/ queue = NewArrayQueue /\ fifo = <<>>
       \/ \E s \in Slices : queue = NewArrayQueueFromSlice(s) /\ fifo = s
    /\ call = [op |-> "New", ret |-> zero]
    /\ offers = 0
    /\ panicked = FALSE
    /\ writer = [pc |-> "idle", element |-> zero]
    /\ torn = FALSE

\* A further call can be made on the queue.
Callable == ~panicked

\* The element of the next Offer: a new non-zero one.
NewElement == MaxSlice + offers + 1

\* queue.Offer(element)
CallOffer ==
    /\ Callable
    /\ offers < MaxOffers
    /\ IF OfferPanics(queue)
       THEN /\ queue' = scale(queue)
            /\ panicked' = TRUE
            /\ fifo' = fifo
       ELSE /\ queue' = Offer(queue, NewElement)
            /\ panicked' = FALSE
            /\ fifo' = Append(fifo, NewElement)
    /\ call' = [op |-> "Offer", ret |-> NewElement]
    /\ offers' = offers + 1
    /\ UNCHANGED <<poolState, writer, torn>>

\* queue.Poll()
CallPoll ==
    /\ Callable
    /\ queue' = Poll(queue).queue
    /\ call' = [op |-> "Poll", ret |-> Poll(queue).element]
    /\ fifo' = IF fifo = <<>> THEN fifo ELSE Tail(fifo)
    /\ UNCHANGED <<poolState, writer, torn, offers, panicked>>

\* queue.Peek()
CallPeek ==
    /\ Callable
    /\ call' = [op |-> "Peek", ret |-> Peek(queue)]
    /\ UNCHANGED <<poolState, writer, torn, queue, fifo, offers, panicked>>

\* queue.Size()
CallSize ==
    /\ Callable
    /\ call' = [op |-> "Size", ret |-> Size(queue)]
    /\ UNCHANGED <<poolState, writer, torn, queue, fifo, offers, panicked>>

\* queue.IsEmpty()
CallIsEmpty ==
    /\ Callable
    /\ call' = [op |-> "IsEmpty", ret |-> IsEmpty(queue)]
    /\ UNCHANGED <<poolState, writer, torn, queue, fifo, offers, panicked>>

\* queue.Clear()
CallClear ==
    /\ Callable
    /\ queue' = Clear(queue)
    /\ call' = [op |-> "Clear", ret |-> zero]
    /\ fifo' = <<>>
    /\ UNCHANGED <<poolState, writer, torn, offers, panicked>>

\* queue.ToSlice()
CallToSlice ==
    /\ Callable
    /\ call' = [op |-> "ToSlice", ret |-> ToSlice(queue)]
    /\ UNCHANGED <<poolState, writer, torn, queue, fifo, offers, panicked>>

QueueNext ==
    \/ CallOffer
    \/ CallPoll
    \/ CallPeek
    \/ CallSize
    \/ CallIsEmpty
    \/ CallClear
    \/ CallToSlice

QueueSpec == QueueInit /\ [][QueueNext]_vars

\* --------------------------------- the ArrayQueue shared by two goroutines
\* One goroutine calls Offer, Poll and Clear, which hold queue.lock from their
\* first to their last update of the fields; another calls Size, IsEmpty and
\* Peek, which take no lock, and ToSlice, which takes the read lock.
WriterIdle == [pc |-> "idle", element |-> zero]
Idle == writer.pc = "idle"

LockInit ==
    /\ PoolIdle
    /\ \E s \in Slices \ {<<>>} : queue = NewArrayQueueFromSlice(s) /\ fifo = s
    /\ call = [op |-> "New", ret |-> zero]
    /\ offers = 0
    /\ panicked = FALSE
    /\ writer = WriterIdle
    /\ torn = FALSE

\* Offer of a full queue: Lock, scale's queue.data = queue.copy(...)
OfferScaleData ==
    /\ Idle
    /\ offers < MaxOffers
    /\ queueFull(queue)
    /\ queue' = [queue EXCEPT !.data = copy(queue, Len(queue.data) * 2)]
    /\ writer' = [pc |-> "front", element |-> NewElement]
    /\ offers' = offers + 1
    /\ UNCHANGED <<poolState, fifo, call, panicked, torn>>

\* scale's queue.front = 0
OfferScaleFront ==
    /\ writer.pc = "front"
    /\ queue' = [queue EXCEPT !.front = 0]
    /\ writer' = [writer EXCEPT !.pc = "put"]
    /\ UNCHANGED <<poolState, fifo, call, offers, panicked, torn>>

\* queue.data[queue.getRear()] = element, after Lock or after scale
OfferPut ==
    /\ \/ /\ Idle
          /\ offers < MaxOffers
          /\ ~queueFull(queue)
          /\ queue' = [queue EXCEPT !.data[getRear(queue) + 1] = NewElement]
          /\ writer' = [pc |-> "size", element |-> NewElement]
          /\ offers' = offers + 1
       \/ /\ writer.pc = "put"
          /\ queue' = [queue EXCEPT !.data[getRear(queue) + 1] = writer.element]
          /\ writer' = [writer EXCEPT !.pc = "size"]
          /\ offers' = offers
    /\ UNCHANGED <<poolState, fifo, call, panicked, torn>>

\* queue.size++, Unlock
OfferSize ==
    /\ writer.pc = "size"
    /\ queue' = [queue EXCEPT !.size = @ + 1]
    /\ writer' = WriterIdle
    /\ fifo' = Append(fifo, writer.element)
    /\ call' = [op |-> "Offer", ret |-> writer.element]
    /\ UNCHANGED <<poolState, offers, panicked, torn>>

\* Poll of an empty queue: Lock, Peek, Unlock
PollEmpty ==
    /\ Idle
    /\ queue.size = 0
    /\ call' = [op |-> "Poll", ret |-> Peek(queue)]
    /\ UNCHANGED <<poolState, queue, fifo, offers, panicked, writer, torn>>

\* Poll of a non-empty queue: Lock, Peek, queue.front = ...
PollFront ==
    /\ Idle
    /\ queue.size # 0
    /\ queue' = [queue EXCEPT !.front = (queue.front + 1) % Len(queue.data)]
    /\ writer' = [pc |-> "pollSize", element |-> Peek(queue)]
    /\ UNCHANGED <<poolState, fifo, call, offers, panicked, torn>>

\* queue.size--, Unlock, return
PollSize ==
    /\ writer.pc = "pollSize"
    /\ queue' = [queue EXCEPT !.size = @ - 1]
    /\ writer' = WriterIdle
    /\ fifo' = Tail(fifo)
    /\ call' = [op |-> "Poll", ret |-> writer.element]
    /\ UNCHANGED <<poolState, offers, panicked, torn>>

\* Clear: Lock, queue.size = 0
ClearSize ==
    /\ Idle
    /\ queue' = [queue EXCEPT !.size = 0]
    /\ writer' = [pc |-> "clearFront", element |-> zero]
    /\ UNCHANGED <<poolState, fifo, call, offers, panicked, torn>>

\* queue.front = 0, Unlock
ClearFront ==
    /\ writer.pc = "clearFront"
    /\ queue' = [queue EXCEPT !.front = 0]
    /\ writer' = WriterIdle
    /\ fifo' = <<>>
    /\ call' = [op |-> "Clear", ret |-> zero]
    /\ UNCHANGED <<poolState, offers, panicked, torn>>

\* Size(), without the lock
ReadSize ==
    /\ call' = [op |-> "Size", ret |-> Size(queue)]
    /\ torn' = (torn \/ ~Idle)
    /\ UNCHANGED <<poolState, queue, fifo, offers, panicked, writer>>

\* IsEmpty(), without the lock
ReadIsEmpty ==
    /\ call' = [op |-> "IsEmpty", ret |-> IsEmpty(queue)]
    /\ torn' = (torn \/ ~Idle)
    /\ UNCHANGED <<poolState, queue, fifo, offers, panicked, writer>>

\* Peek(), without the lock
ReadPeek ==
    /\ call' = [op |-> "Peek", ret |-> Peek(queue)]
    /\ torn' = (torn \/ ~Idle)
    /\ UNCHANGED <<poolState, queue, fifo, offers, panicked, writer>>

\* ToSlice(), under RLock
ReadToSlice ==
    /\ Idle
    /\ call' = [op |-> "ToSlice", ret |-> ToSlice(queue)]
    /\ UNCHANGED <<poolState, queue, fifo, offers, panicked, writer, torn>>

LockNext ==
    \/ OfferScaleData
    \/ OfferScaleFront
    \/ OfferPut
    \/ OfferSize
    \/ PollEmpty
    \/ PollFront
    \/ PollSize
    \/ ClearSize
    \/ ClearFront
    \/ ReadSize
    \/ ReadIsEmpty
    \/ ReadPeek
    \/ ReadToSlice

LockSpec == LockInit /\ [][LockNext]_vars

\* ----------------------------------------------------- ReturnableTaskPool
\* The pools a ReturnableTaskPool is checked with.
ReturnableConfigs == {<<c, l>> : c \in 1..MaxConcurrent, l \in TaskLists}

\* NewReturnableTaskPool
ReturnableInit ==
    /\ \E cfg \in ReturnableConfigs :
          /\ concurrent = cfg[1]
          /\ taskList = cfg[2]
          /\ taskQueue = NewArrayQueueFromSlice(cfg[2])
    /\ shutdown = TRUE
    /\ runningTasks = {}
    /\ isInterrupt = FALSE
    /\ workerShutdown = FALSE
    /\ startPc = "created"
    /\ created = 0
    /\ signalPc = "none"
    /\ workerPc = [w \in Workers |-> "none"]
    /\ workerTask = [w \in Workers |-> zero]
    /\ invoked = [t \in AllTask |-> 0]
    /\ returned = [t \in AllTask |-> 0]
    /\ retried = [t \in AllTask |-> 0]
    /\ interruptedBy = zero
    /\ outcome = "none"
    /\ sawAllDone = FALSE
    /\ NoAutoSave
    /\ NoLocking
    /\ NoResults
    /\ queue = NewArrayQueueFromSlice(<<>>)
    /\ fifo = <<>>
    /\ call = [op |-> "none", ret |-> zero]
    /\ offers = 0
    /\ panicked = FALSE
    /\ writer = [pc |-> "idle", element |-> zero]
    /\ torn = FALSE

\* Start(ignoreEmpty) is called: workerShutdown := false, the signal
\* goroutine is started, resultList := make([]R, 0).
ReturnableStartBegin ==
    /\ startPc = "created"
    /\ ignoreEmpty' \in BOOLEAN
    /\ workerShutdown' = FALSE
    /\ signalPc' = "wait"
    /\ resultList' = <<>>
    /\ startPc' = "create"
    /\ UNCHANGED <<poolVars, taskQueue, runningTasks, isInterrupt, created,
                   workerPc, workerTask, history>>
    /\ Observe
    /\ UNCHANGED <<queueVars, lockVars, saveVars,
                   workerResult, resultCount, returnedList>>

\* After the loop: workerShutdown = true; return resultList.
ReturnableStartStop ==
    /\ startPc = "stop"
    /\ workerShutdown' = TRUE
    /\ returnedList' = resultList
    /\ startPc' = "done"
    /\ UNCHANGED <<poolVars, taskQueue, runningTasks, isInterrupt, created,
                   signalPc, workerPc, workerTask, history>>
    /\ Observe
    /\ UNCHANGED <<queueVars, lockVars, saveVars, ignoreEmpty, resultList, workerResult,
                   resultCount>>

\* result := worker.run(task, worker.taskPool): the routine returns the zero
\* value of R or the result of its task.
ReturnableRoutineReturn(w) ==
    /\ workerPc[w] = "run"
    /\ \E result \in {zero, workerTask[w]} :
          /\ workerResult' = [workerResult EXCEPT ![w] = result]
          /\ resultCount' = [resultCount EXCEPT ![result] = @ + 1]
    /\ returned' = [returned EXCEPT ![workerTask[w]] = @ + 1]
    /\ workerPc' = [workerPc EXCEPT ![w] = "collect"]
    /\ UNCHANGED <<poolVars, taskQueue, runningTasks, isInterrupt, workerShutdown,
                   startPc, created, signalPc, workerTask, invoked, retried,
                   interruptedBy, outcome>>
    /\ Observe
    /\ UNCHANGED <<queueVars, lockVars, saveVars, ignoreEmpty, resultList, returnedList>>

\* Mutant of WorkerCollect: a zero result is never collected.
WorkerCollectNonZero(w) ==
    /\ workerPc[w] = "collect"
    /\ resultList' = IF workerResult[w] # zero
                     THEN Append(resultList, workerResult[w])
                     ELSE resultList
    /\ workerPc' = [workerPc EXCEPT ![w] = "remove"]
    /\ UNCHANGED <<poolVars, taskQueue, runningTasks, isInterrupt, workerShutdown,
                   startPc, created, signalPc, workerTask, history>>
    /\ Observe
    /\ UNCHANGED <<queueVars, lockVars, saveVars, ignoreEmpty, workerResult, resultCount,
                   returnedList>>

\* if result != resultZero || (result == resultZero && !ignoreEmpty) {
\*     *worker.resultList = append(*worker.resultList, result) }
WorkerCollect(w) ==
    /\ workerPc[w] = "collect"
    /\ resultList' = IF workerResult[w] # zero \/ (workerResult[w] = zero /\ ~ignoreEmpty)
                     THEN Append(resultList, workerResult[w])
                     ELSE resultList
    /\ workerPc' = [workerPc EXCEPT ![w] = "remove"]
    /\ UNCHANGED <<poolVars, taskQueue, runningTasks, isInterrupt, workerShutdown,
                   startPc, created, signalPc, workerTask, history>>
    /\ Observe
    /\ UNCHANGED <<queueVars, lockVars, saveVars, ignoreEmpty, workerResult, resultCount,
                   returnedList>>

ReturnableNext ==
    \/ ReturnableStartBegin
    \/ StartCreateWorker
    \/ StartCreated
    \/ LoopInterrupt
    \/ LoopIsEmpty
    \/ LoopSize
    \/ LoopLookup
    \/ ReturnableStartStop
    \/ SignalReceive
    \/ SignalShutdown
    \/ SignalInterrupt
    \/ \E w \in Workers : WorkerCheck(w)
    \/ \E w \in Workers : WorkerPoll(w)
    \/ \E w \in Workers : WorkerAdd(w)
    \/ \E w \in Workers : RoutineRetry(w)
    \/ \E w \in Workers : RoutineInterrupt(w)
    \/ \E w \in Workers : ReturnableRoutineReturn(w)
    \/ \E w \in Workers : WorkerCollect(w)
    \/ \E w \in Workers : WorkerRemove(w)

ReturnableSpec == ReturnableInit /\ [][ReturnableNext]_vars

\* ---------------------------------------------------- automatic saving
\* newMapSetFromSlice: the set of the elements of a slice.
newMapSetFromSlice(list) == {list[i] : i \in 1..Len(list)}

\* Mutant of toSlice: the elements are not all copied.
toSliceDrops(set) ==
    {s \in [1..(Cardinality(set) - 1) -> set] :
        \A i, j \in DOMAIN s : i # j => s[i] # s[j]}

\* mapSet.toSlice: the elements in the order the map iteration yields them,
\* which is any order.
toSlice(set) ==
    {s \in [1..Cardinality(set) -> set] :
        \A i, j \in DOMAIN s : i # j => s[i] # s[j]}

\* The pools automatic saving is checked with: no shutdown callback, no
\* zero-valued task.
SaveConfigs ==
    {<<c, l>> : c \in 1..MaxConcurrent,
                l \in {t \in TaskLists : \A i \in 1..Len(t) : t[i] # zero}}

SaveInit ==
    /\ \E cfg \in SaveConfigs :
          /\ concurrent = cfg[1]
          /\ taskList = cfg[2]
          /\ taskQueue = NewArrayQueueFromSlice(cfg[2])
    /\ shutdown = FALSE
    /\ runningTasks = {}
    /\ isInterrupt = FALSE
    /\ workerShutdown = FALSE
    /\ startPc = "created"
    /\ created = 0
    /\ signalPc = "none"
    /\ workerPc = [w \in Workers |-> "none"]
    /\ workerTask = [w \in Workers |-> zero]
    /\ invoked = [t \in AllTask |-> 0]
    /\ returned = [t \in AllTask |-> 0]
    /\ retried = [t \in AllTask |-> 0]
    /\ interruptedBy = zero
    /\ outcome = "none"
    /\ sawAllDone = FALSE
    /\ NoAutoSave
    /\ NoLocking
    /\ NoResults
    /\ queue = NewArrayQueueFromSlice(<<>>)
    /\ fifo = <<>>
    /\ call = [op |-> "none", ret |-> zero]
    /\ offers = 0
    /\ panicked = FALSE
    /\ writer = [pc |-> "idle", element |-> zero]
    /\ torn = FALSE

\* What a step of the automatic saving leaves alone.
saveOthers == <<taskList, concurrent, shutdown, taskQueue, runningTasks, isInterrupt,
                workerShutdown, startPc, created, signalPc, workerPc, workerTask,
                invoked, returned, retried, interruptedBy, outcome, sawAllDone,
                queueVars, lockVars, resultVars>>

\* EnableTaskAutoSave, called before Start: the ticker is made and the saving
\* goroutine started.
EnableTaskAutoSave ==
    /\ saveTicker.state = "nil"
    /\ startPc = "created"
    /\ saveTicker' = [state |-> "running", C |-> 0]
    /\ autoSave' = [autoSave EXCEPT !.pc = "wait"]
    /\ UNCHANGED <<saveResult, saveOthers>>

\* DisableTaskAutoSave: if pool.saveTicker != nil { pool.saveTicker.Stop() }
DisableTaskAutoSave ==
    /\ saveTicker.state = "running"
    /\ saveTicker' = [saveTicker EXCEPT !.state = "stopped"]
    /\ UNCHANGED <<autoSave, saveResult, saveOthers>>

\* The interval has passed: the running ticker puts a tick into its channel,
\* unless one is waiting there.
TickerFire ==
    /\ saveTicker.state = "running"
    /\ saveTicker.C = 0
    /\ saveTicker' = [saveTicker EXCEPT !.C = 1]
    /\ UNCHANGED <<autoSave, saveResult, saveOthers>>

\* for range pool.saveTicker.C: a tick is received and SaveTaskList called.
SaveReceive ==
    /\ autoSave.pc = "wait"
    /\ saveTicker.C = 1
    /\ saveTicker' = [saveTicker EXCEPT !.C = 0]
    /\ autoSave' = [autoSave EXCEPT !.pc = "queued"]
    /\ UNCHANGED <<saveResult, saveOthers>>

\* GetAllTaskList, first part: pool.GetQueuedTaskList()
SaveGetQueued ==
    /\ autoSave.pc = "queued"
    /\ autoSave' = [autoSave EXCEPT !.pc = "running", !.queued = ToSlice(taskQueue)]
    /\ UNCHANGED <<saveTicker, saveResult, saveOthers>>

\* GetAllTaskList, second part: pool.GetRunningTaskList(), every running
\* task added to the set of the queued ones, taskSet.toSlice().
SaveGetRunning ==
    /\ autoSave.pc = "running"
    /\ \E running \in toSlice(runningTasks) :
          LET taskSet == newMapSetFromSlice(autoSave.queued)
                             \cup {running[i] : i \in 1..Len(running)}
          IN \E all \in toSlice(taskSet) :
                autoSave' = [autoSave EXCEPT !.pc = "write", !.all = all]
    /\ UNCHANGED <<saveTicker, saveResult, saveOthers>>

\* Mutant of SaveWrite: the loop ends at the first error.
SaveWriteStopsOnError ==
    /\ autoSave.pc = "write"
    /\ \E e \in {"ok", "error"} :
          /\ saveResult' = e
          /\ autoSave' = [pc |-> IF e = "error" THEN "none" ELSE "wait",
                          queued |-> <<>>, all |-> <<>>]
    /\ UNCHANGED <<saveTicker, saveOthers>>

\* SaveTaskList, the rest: json.Marshal and saveDataToFile succeed or one of
\* them returns an error, which the loop prints.
SaveWrite ==
    /\ autoSave.pc = "write"
    /\ \E e \in {"ok", "error"} :
          /\ saveResult' = e
          /\ autoSave' = [pc |-> "wait", queued |-> <<>>, all |-> <<>>]
    /\ UNCHANGED <<saveTicker, saveOthers>>

SaveNext ==
    \/ StartBegin
    \/ StartCreateWorker
    \/ StartCreated
    \/ LoopInterrupt
    \/ LoopIsEmpty
    \/ LoopSize
    \/ LoopLookup
    \/ StartStop
    \/ \E w \in Workers : WorkerCheck(w)
    \/ \E w \in Workers : WorkerPoll(w)
    \/ \E w \in Workers : WorkerAdd(w)
    \/ \E w \in Workers : RoutineRetry(w)
    \/ \E w \in Workers : RoutineInterrupt(w)
    \/ \E w \in Workers : RoutineReturn(w)
    \/ \E w \in Workers : WorkerRemove(w)
    \/ EnableTaskAutoSave
    \/ DisableTaskAutoSave
    \/ TickerFire
    \/ SaveReceive
    \/ SaveGetQueued
    \/ SaveGetRunning
    \/ SaveWrite

SaveSpec == SaveInit /\ [][SaveNext]_vars

\* ------------------------------------------- Start on an interrupted pool
\* A pool whose Start has returned interrupted before a worker took a task:
\* the flag is set, the tasks are in the queue, the workers have ended.
RestartInit ==
    /\ \E cfg \in Configs :
          /\ concurrent = cfg[1]
          /\ taskList = cfg[2]
          /\ taskQueue = NewArrayQueueFromSlice(cfg[2])
    /\ shutdown = FALSE
    /\ runningTasks = {}
    /\ isInterrupt = TRUE
    /\ workerShutdown = TRUE
    /\ startPc = "done"
    /\ created = concurrent
    /\ signalPc = "none"
    /\ workerPc = [w \in Workers |-> IF w <= concurrent THEN "exit" ELSE "none"]
    /\ workerTask = [w \in Workers |-> zero]
    /\ invoked = [t \in AllTask |-> 0]
    /\ returned = [t \in AllTask |-> 0]
    /\ retried = [t \in AllTask |-> 0]
    /\ interruptedBy = zero
    /\ outcome = "Interrupted"
    /\ sawAllDone = FALSE
    /\ NoAutoSave
    /\ NoLocking
    /\ NoResults
    /\ queue = NewArrayQueueFromSlice(<<>>)
    /\ fifo = <<>>
    /\ call = [op |-> "none", ret |-> zero]
    /\ offers = 0
    /\ panicked = FALSE
    /\ writer = [pc |-> "idle", element |-> zero]
    /\ torn = FALSE

\* Start is called again, after the workers of the call before have ended:
\* a new local workerShutdown := false, a new worker creation loop.
StartAgain ==
    /\ startPc = "done"
    /\ \A w \in Workers : workerPc[w] \in {"none", "exit"}
    /\ workerShutdown' = FALSE
    /\ signalPc' = IF shutdown THEN "wait" ELSE "none"
    /\ created' = 0
    /\ workerPc' = [w \in Workers |-> "none"]
    /\ startPc' = "create"
    /\ UNCHANGED <<poolVars, taskQueue, runningTasks, isInterrupt, workerTask,
                   history>>
    /\ Observe
    /\ UNCHANGED otherVars

\* The steps a pool can take whose interrupt flag is set.
RestartNext ==
    \/ StartAgain
    \/ StartCreateWorker
    \/ StartCreated
    \/ LoopInterrupt
    \/ StartStop
    \/ \E w \in Workers : WorkerCheck(w)
    \/ \E w \in Workers : WorkerPoll(w)
    \/ \E w \in Workers : WorkerAdd(w)
    \/ \E w \in Workers : RoutineRetry(w)
    \/ \E w \in Workers : RoutineInterrupt(w)
    \/ \E w \in Workers : RoutineReturn(w)
    \/ \E w \in Workers : WorkerRemove(w)

RestartSpec == RestartInit /\ [][RestartNext]_vars

\* ------------------------------------------------------ a mapSet on its own
\* newMapSet(): the pool's running set, used through its methods; `call` is
\* the last call, its argument, what it returned and the set before it.
SetInit ==
    /\ concurrent = 1
    /\ taskList = <<>>
    /\ taskQueue = NewArrayQueueFromSlice(<<>>)
    /\ shutdown = FALSE
    /\ runningTasks = {}
    /\ isInterrupt = FALSE
    /\ workerShutdown = FALSE
    /\ startPc = "created"
    /\ created = 0
    /\ signalPc = "none"
    /\ workerPc = [w \in Workers |-> "none"]
    /\ workerTask = [w \in Workers |-> zero]
    /\ invoked = [t \in AllTask |-> 0]
    /\ returned = [t \in AllTask |-> 0]
    /\ retried = [t \in AllTask |-> 0]
    /\ interruptedBy = zero
    /\ outcome = "none"
    /\ sawAllDone = FALSE
    /\ NoAutoSave
    /\ NoLocking
    /\ NoResults
    /\ queue = NewArrayQueueFromSlice(<<>>)
    /\ fifo = <<>>
    /\ call = [op |-> "newMapSet", item |-> zero, ret |-> zero, before |-> {}]
    /\ offers = 0
    /\ panicked = FALSE
    /\ writer = [pc |-> "idle", element |-> zero]
    /\ torn = FALSE

\* What a call on the set leaves alone.
setOthers == <<taskList, concurrent, shutdown, taskQueue, isInterrupt,
               workerShutdown, startPc, created, signalPc, workerPc, workerTask,
               invoked, returned, retried, interruptedBy, outcome, sawAllDone,
               queue, fifo, offers, panicked, writer, torn, lockVars, saveVars,
               resultVars>>

SetAdd ==
    /\ \E item \in AllTask :
          /\ runningTasks' = add(runningTasks, item)
          /\ call' = [op |-> "add", item |-> item, ret |-> zero,
                      before |-> runningTasks]
    /\ UNCHANGED setOthers

SetRemove ==
    /\ \E item \in AllTask :
          /\ runningTasks' = remove(runningTasks, item)
          /\ call' = [op |-> "remove", item |-> item, ret |-> zero,
                      before |-> runningTasks]
    /\ UNCHANGED setOthers

SetContains ==
    /\ \E item \in AllTask :
          call' = [op |-> "contains", item |-> item,
                   ret |-> contains(runningTasks, item), before |-> runningTasks]
    /\ UNCHANGED <<runningTasks, setOthers>>

SetSize ==
    /\ call' = [op |-> "size", item |-> zero, ret |-> size(runningTasks),
                before |-> runningTasks]
    /\ UNCHANGED <<runningTasks, setOthers>>

SetClear ==
    /\ runningTasks' = clear(runningTasks)
    /\ call' = [op |-> "clear", item |-> zero, ret |-> zero, before |-> runningTasks]
    /\ UNCHANGED setOthers

SetNext ==
    \/ SetAdd
    \/ SetRemove
    \/ SetContains
    \/ SetSize
    \/ SetClear

SetSpec == SetInit /\ [][SetNext]_vars

\* ------------------------------------- the running set and its lock
\* The values added to and removed from the set.
Items == 1..MaxLen

\* sync.RWMutex: a read lock is granted while no goroutine holds the write
\* lock or waits for it.
CanRLock == rwLock.writer = 0 /\ rwLock.waiting = 0

\* newMapSet(): the running set on its own, no goroutine inside a method.
RWInit ==
    /\ PoolIdle
    /\ queue = NewArrayQueueFromSlice(<<>>)
    /\ fifo = <<>>
    /\ call = [op |-> "none", ret |-> zero]
    /\ offers = 0
    /\ panicked = FALSE
    /\ writer = [pc |-> "idle", element |-> zero]
    /\ torn = FALSE

\* What a step inside a method of the set leaves alone.
lockOthers == <<taskList, concurrent, shutdown, taskQueue, isInterrupt,
                workerShutdown, startPc, created, signalPc, workerPc, workerTask,
                invoked, returned, retried, interruptedBy, outcome, sawAllDone,
                queueVars, saveVars, resultVars>>

\* GetRunningTaskList: runningTasks.toSlice() is called.
ToSliceCall ==
    /\ reader.pc = "idle"
    /\ reader' = [pc |-> "toSlice", slice |-> <<>>]
    /\ UNCHANGED <<rwLock, writers, runningTasks, lockOthers>>

\* toSlice: set.lock.RLock()
ToSliceRLock ==
    /\ reader.pc = "toSlice"
    /\ CanRLock
    /\ rwLock' = [rwLock EXCEPT !.readers = @ + 1]
    /\ reader' = [reader EXCEPT !.pc = "forEach"]
    /\ UNCHANGED <<writers, runningTasks, lockOthers>>

\* toSlice calls forEach: set.lock.RLock() once more
ForEachRLock ==
    /\ reader.pc = "forEach"
    /\ CanRLock
    /\ rwLock' = [rwLock EXCEPT !.readers = @ + 1]
    /\ reader' = [reader EXCEPT !.pc = "range"]
    /\ UNCHANGED <<writers, runningTasks, lockOthers>>

\* forEach: for item := range set.data { slice = append(slice, item) }
ForEachRange ==
    /\ reader.pc = "range"
    /\ \E items \in toSlice(runningTasks) :
          reader' = [pc |-> "forEachUnlock", slice |-> items]
    /\ UNCHANGED <<rwLock, writers, runningTasks, lockOthers>>

\* forEach returns: its deferred set.lock.RUnlock()
ForEachRUnlock ==
    /\ reader.pc = "forEachUnlock"
    /\ rwLock' = [rwLock EXCEPT !.readers = @ - 1]
    /\ reader' = [reader EXCEPT !.pc = "unlock"]
    /\ UNCHANGED <<writers, runningTasks, lockOthers>>

\* toSlice returns: its deferred set.lock.RUnlock()
ToSliceRUnlock ==
    /\ reader.pc = "unlock"
    /\ rwLock' = [rwLock EXCEPT !.readers = @ - 1]
    /\ reader' = [reader EXCEPT !.pc = "idle"]
    /\ UNCHANGED <<writers, runningTasks, lockOthers>>

\* A worker calls runningTasks.add(item) or runningTasks.remove(item).
WriteCall(w) ==
    /\ writers[w].pc = "idle"
    /\ \E op \in {"add", "remove"}, item \in Items :
          writers' = [writers EXCEPT ![w] = [pc |-> "lock", op |-> op, item |-> item]]
    /\ UNCHANGED <<rwLock, reader, runningTasks, lockOthers>>

\* set.lock.Lock(), first part: the writer is the one to have the lock next;
\* from now on no read lock is granted.
WriteLockWait(w) ==
    /\ writers[w].pc = "lock"
    /\ rwLock.writer = 0 /\ rwLock.waiting = 0
    /\ rwLock' = [rwLock EXCEPT !.waiting = w]
    /\ writers' = [writers EXCEPT ![w].pc = "wait"]
    /\ UNCHANGED <<reader, runningTasks, lockOthers>>

\* set.lock.Lock(), second part: the read locks held have all been released.
WriteLock(w) ==
    /\ writers[w].pc = "wait"
    /\ rwLock.readers = 0
    /\ rwLock' = [rwLock EXCEPT !.waiting = 0, !.writer = w]
    /\ writers' = [writers EXCEPT ![w].pc = "write"]
    /\ UNCHANGED <<reader, runningTasks, lockOthers>>

\* set.data[item] = nil, or delete(set.data, item)
Write(w) ==
    /\ writers[w].pc = "write"
    /\ runningTasks' = IF writers[w].op = "add"
                       THEN add(runningTasks, writers[w].item)
                       ELSE remove(runningTasks, writers[w].item)
    /\ writers' = [writers EXCEPT ![w].pc = "unlock"]
    /\ UNCHANGED <<rwLock, reader, lockOthers>>

\* The deferred set.lock.Unlock()
WriteUnlock(w) ==
    /\ writers[w].pc = "unlock"
    /\ rwLock' = [rwLock EXCEPT !.writer = 0]
    /\ writers' = [writers EXCEPT ![w] = [pc |-> "idle", op |-> "none", item |-> zero]]
    /\ UNCHANGED <<reader, runningTasks, lockOthers>>

\* The steps of the goroutines that are inside a method of the set.
InsideStep ==
    \/ ToSliceRLock
    \/ ForEachRLock
    \/ ForEachRange
    \/ ForEachRUnlock
    \/ ToSliceRUnlock
    \/ \E w \in Workers : WriteLockWait(w)
    \/ \E w \in Workers : WriteLock(w)
    \/ \E w \in Workers : Write(w)
    \/ \E w \in Workers : WriteUnlock(w)

RWNext ==
    \/ ToSliceCall
    \/ ToSliceRLock
    \/ ForEachRLock
    \/ ForEachRange
    \/ ForEachRUnlock
    \/ ToSliceRUnlock
    \/ \E w \in Workers : WriteCall(w)
    \/ \E w \in Workers : WriteLockWait(w)
    \/ \E w \in Workers : WriteLock(w)
    \/ \E w \in Workers : Write(w)
    \/ \E w \in Workers : WriteUnlock(w)

RWSpec == RWInit /\ [][RWNext]_vars

\* ------------------------------------------------------------------ claims
\* The queue's content, head to tail.
Queued == ToSlice(taskQueue)
QueuedTasks == {Queued[i] : i \in 1..Len(Queued)}

Count(list, t) == Cardinality({i \in 1..Len(list) : list[i] = t})

\* No task of the list is the zero value / no two tasks of the list are equal.
NonZero(list) == \A i \in 1..Len(list) : list[i] # zero
Distinct(list) == \A i, j \in 1..Len(list) : i # j => list[i] # list[j]

\* Start is between its call and the end of its control loop.
Running == startPc \in {"create", "loop", "isEmpty", "size", "lookup"}
\* No termination signal has been received.
NoSignal == signalPc \notin {"shutdown", "interrupt"}

\* Workers that hold a dequeued task t whose routine has not yet been entered.
Pending(t) == Cardinality({w \in Workers : workerPc[w] = "add" /\ workerTask[w] = t})

\* C1: in a running, non-interrupted pool every task a worker has dequeued
\* and whose routine has not yet returned is in the TaskQueue or in the
\* RunningSet, also between the worker's dequeue and its RunningSet.add.
C1_TaskTracked ==
    (Running /\ ~isInterrupt /\ NoSignal /\ NonZero(taskList)) =>
        \A w \in Workers :
            workerPc[w] \in {"add", "run"} =>
                workerTask[w] \in QueuedTasks \cup runningTasks

\* C2: when Start has returned with the Completed outcome, the queue is
\* empty, every task has had its routine invoked, every invocation has
\* returned, and no routine is executing or about to be executed.
C2_StartBlocksUntilFinished ==
    (startPc = "done" /\ outcome = "Completed" /\ NonZero(taskList)) =>
        /\ IsEmpty(taskQueue)
        /\ \A w \in Workers : workerPc[w] \notin {"add", "run"}
        /\ \A t \in AllTask :
              /\ invoked[t] = Count(taskList, t) + retried[t]
              /\ returned[t] = invoked[t]

\* C3: whenever a worker is inside run(task, pool) for a task t, t is a
\* member of the RunningSet.
C3_RunningSetCoversInvocation ==
    NonZero(taskList) =>
        \A w \in Workers : workerPc[w] = "run" => workerTask[w] \in runningTasks

\* C4: whenever the control loop's call of IsAllDone returns true, there was
\* an instant between its invocation and its return at which the TaskQueue
\* and the RunningSet were both empty.
C4_IsAllDoneAtOneInstant ==
    (startPc = "stop" /\ outcome = "Completed") => sawAllDone

\* C5: with distinct tasks and no Retry call, in every state in which the
\* routine of a task A has been invoked and has not yet returned, A is in the
\* RunningSet and IsAllDone() is false, also when the queue is empty and the
\* routines of all other tasks have returned.
C5_InFlightTaskIsNotAllDone ==
    (Distinct(taskList) /\ Sum(retried, AllTask) = 0) =>
        \A w \in Workers :
            workerPc[w] = "run" => workerTask[w] \in runningTasks /\ ~IsAllDone

\* C5 witness: concurrency 2, tasks 1 and 2; the routine of task 1 is blocked,
\* the routine of task 2 has returned and left the RunningSet, the queue is
\* empty.
C5_Witness ==
    /\ concurrent = 2
    /\ taskList = <<1, 2>>
    /\ \E w \in Workers : workerPc[w] = "run" /\ workerTask[w] = 1
    /\ returned[2] = 1
    /\ runningTasks = {1}
    /\ IsEmpty(taskQueue)
    /\ ~IsAllDone

\* C6: in a pool that is never interrupted and in which the routine of some
\* task has called Retry once, once Start has returned (Completed) that task
\* has been invoked exactly twice, every other task exactly once, and all
\* these invocations have returned.
C6_RetryExactlyOnceMore ==
    (/\ startPc = "done"
     /\ outcome = "Completed"
     /\ ~isInterrupt
     /\ NoSignal
     /\ Distinct(taskList)
     /\ NonZero(taskList)
     /\ \A t \in AllTask : retried[t] <= 1
     /\ \E t \in AllTask : retried[t] = 1) =>
        \A i \in 1..Len(taskList) :
            /\ invoked[taskList[i]] = 1 + retried[taskList[i]]
            /\ returned[taskList[i]] = invoked[taskList[i]]

\* C7: with concurrency 1 and the task list 1..5, if the routine of task 2
\* calls Interrupt() (and no signal arrives), then, with Start in or past its control loop, the
\* routines of tasks 4 and 5 have not been invoked, and the queue is
\* non-empty after Start has returned.
C7_InterruptStopsDispatch ==
    (/\ concurrent = 1
     /\ taskList = <<1, 2, 3, 4, 5>>
     /\ interruptedBy = 2
     /\ startPc \in {"loop", "isEmpty", "size", "lookup", "stop", "done"}
     /\ signalPc \in {"none", "wait"} \/ (signalPc = "exit" /\ startPc = "done")) =>
        /\ invoked[4] = 0
        /\ invoked[5] = 0
        /\ startPc = "done" => Len(Queued) > 0

\* Every occurrence of task t that was enqueued (initially or by Retry) is
\* still in the queue, or is held by the worker that dequeued it and is about
\* to run it, or has had its routine invoked.
Dispatched(t) ==
    Count(taskList, t) + retried[t] = Count(Queued, t) + Pending(t) + invoked[t]

C9_InterruptMonotonic ==
    /\ (startPc = "created" => ~isInterrupt)
    /\ [][isInterrupt => isInterrupt']_vars

\* C9 witness: a routine has set the flag, the signal goroutine has set it
\* again, further steps were taken, and Start is still in its control loop.
C9_Witness ==
    /\ isInterrupt
    /\ interruptedBy # zero
    /\ signalPc = "exit"
    /\ startPc = "lookup"
    /\ \E w \in Workers : workerPc[w] = "run" /\ workerTask[w] # interruptedBy

\* C10: if the interrupt flag is set while Start is in its control loop, Start
\* eventually returns, whatever is queued or running.
C10_InterruptLiveness ==
    (isInterrupt /\ startPc \in {"loop", "isEmpty", "size", "lookup"})
        ~> (startPc = "done")

\* C10 witness: Start has returned Interrupted while the queue is non-empty
\* and every worker is inside a routine that has not returned.
C10_Witness ==
    /\ startPc = "done"
    /\ outcome = "Interrupted"
    /\ Len(Queued) > 0
    /\ \A w \in 1..concurrent : workerPc[w] = "run"

\* C11: if no interrupt and no termination signal ever occurs, then (every
\* routine returning, Retry being called finitely often, workers and control
\* loop being scheduled) Start eventually returns and every worker leaves
\* its loop.
C11_NormalTermination ==
    [](~isInterrupt /\ NoSignal) =>
        <>(startPc = "done" /\ \A w \in 1..concurrent : workerPc[w] = "exit")

\* C11 witness: two workers have run the tasks 1 and 2 and one retry, nothing
\* interrupted the pool, Start has returned and both workers have ended.
C11_Witness ==
    /\ concurrent = 2
    /\ taskList = <<1, 2>>
    /\ ~isInterrupt /\ NoSignal
    /\ Sum(retried, AllTask) = 1
    /\ Sum(returned, AllTask) = 3
    /\ startPc = "done"
    /\ \A w \in 1..concurrent : workerPc[w] = "exit"

\* Workers that exist / that are inside the routine.
Spawned == {w \in Workers : workerPc[w] # "none"}
InRoutine == {w \in Workers : workerPc[w] = "run"}

\* C12: Start spawns exactly N = concurrent workers, and in every state at
\* most N routine invocations are in progress and the RunningSet has at most
\* N members.
C12_BoundedConcurrency ==
    /\ Cardinality(Spawned) = created
    /\ created <= concurrent
    /\ startPc \in {"loop", "isEmpty", "size", "lookup", "stop", "done"} =>
           Cardinality(Spawned) = concurrent
    /\ Cardinality(InRoutine) <= concurrent
    /\ size(runningTasks) <= concurrent

\* C12 witness: N = 2 and two routines in progress, two tasks in the set.
C12_Witness ==
    /\ concurrent = 2
    /\ Cardinality(InRoutine) = 2
    /\ size(runningTasks) = 2

\* C12 witness of the other degree: N = 1 of the two possible workers.
C12_WitnessOne ==
    /\ concurrent = 1
    /\ startPc = "lookup"
    /\ Spawned = {1}
    /\ InRoutine = {1}

\* C13: every dequeue by a worker takes the head of the queue (the oldest
\* element), every Retry appends at the tail, and nothing else changes the
\* queue: tasks leave in the order they entered, a retried task after
\* everything that was queued when Retry was called.
C13_FifoDispatch ==
    [][/\ \A w \in Workers :
            (workerPc[w] = "poll" /\ workerPc'[w] # "poll") =>
                IF Queued = <<>>
                THEN workerTask'[w] = zero /\ Queued' = <<>>
                ELSE workerTask'[w] = Head(Queued) /\ Queued' = Tail(Queued)
       /\ \A t \in AllTask :
            retried'[t] = retried[t] + 1 => Queued' = Append(Queued, t)
       /\ ((\A w \in Workers : workerPc[w] = "poll" => workerPc'[w] = "poll")
            /\ retried' = retried) => Queued' = Queued]_vars

\* C13 witness: task 1 was dequeued first and retried while task 2 was still
\* queued: it is behind task 2.
C13_Witness ==
    /\ taskList = <<1, 2>>
    /\ retried[1] = 1
    /\ Queued = <<2, 1>>

\* What the queue q holds: its size slots from the head index on, cyclically.
Content(q) ==
    [i \in 1..q.size |-> q.data[((q.front + i - 1) % Len(q.data)) + 1]]

\* C14: every Poll of a non-empty queue returns the oldest element put in
\* and not yet taken out, for a queue filled by Offer as for a queue made
\* from a slice (index 0 first); when all have been taken the queue is empty.
C14_QueueFIFO ==
    /\ [][(call'.op = "Poll" /\ fifo # <<>>) => call'.ret = Head(fifo)]_vars
    /\ [](fifo = <<>> => IsEmpty(queue))

\* C14 witness: three Offers on NewArrayQueue(), then three Polls, the last
\* of which returned the third element; the queue is empty.
C14_Witness ==
    /\ Len(queue.data) = DefaultCapacity
    /\ offers = 3
    /\ queue.front = 3
    /\ call = [op |-> "Poll", ret |-> MaxSlice + 3]
    /\ IsEmpty(queue)

\* C14 witness, queue made from the slice <<1, 2, 3>> and polled three times.
C14_WitnessSlice ==
    /\ Len(queue.data) = 3
    /\ offers = 0
    /\ call = [op |-> "Poll", ret |-> 3]
    /\ IsEmpty(queue)

\* C15: after every operation the head-to-tail content of the queue equals
\* the reference FIFO sequence, also after an Offer that found the buffer
\* full and doubled it, with the head index at any position.
C15_GrowthTransparency == Content(queue) = fifo

\* C15 witness: the queue made from <<1, 2>>, one Poll (head index 1), one
\* Offer (wraps around to slot 0, buffer full), and the Offer that doubled
\* the buffer.
C15_Witness ==
    /\ Len(queue.data) = 4
    /\ fifo = <<2, MaxSlice + 1, MaxSlice + 2>>
    /\ call.op = "Offer"
    /\ queue.front = 0

\* The elements a queue can hold.
Elements == 0..(MaxSlice + MaxOffers)

\* C16: 0 <= size <= capacity, and the elements in the size slots from the
\* head index on are, as a multiset, those put in (by the constructor or by
\* Offer) and neither taken out nor cleared.
C16_QueueInvariant ==
    /\ 0 <= queue.size
    /\ queue.size <= Len(queue.data)
    /\ 0 <= queue.front
    /\ Len(queue.data) > 0 => queue.front < Len(queue.data)
    /\ \A e \in Elements : Count(Content(queue), e) = Count(fifo, e)

\* C16 witness: the queue made from <<1, 2>> has grown by an Offer, taken a
\* second one and been cleared: four elements lie in the buffer, none in
\* the queue.
C16_Witness ==
    /\ Len(queue.data) = 4
    /\ offers = 2
    /\ call.op = "Clear"
    /\ queue.size = 0
    /\ queue.data[4] # zero

\* C17: every Offer completes, increases size by exactly one and places its
\* element at the tail, whatever constructor made the queue.
C17_OfferAlwaysSucceeds ==
    [][call'.op = "Offer" /\ offers' = offers + 1 =>
          /\ ~panicked'
          /\ queue'.size = queue.size + 1
          /\ Content(queue')[queue'.size] = call'.ret]_vars

\* C18: a Poll of an empty queue returns the zero value and leaves the
\* queue as it is, and an Offer after it puts in an element that the next
\* Poll returns.
C18_PollEmptyNoOp ==
    [][/\ (call'.op = "Poll" /\ IsEmpty(queue)) =>
             /\ call'.ret = zero
             /\ queue' = queue
             /\ ~panicked'
       /\ (/\ call = [op |-> "Poll", ret |-> zero]
           /\ IsEmpty(queue)
           /\ call'.op = "Offer") =>
             /\ ~panicked'
             /\ Poll(queue').element = call'.ret]_vars

\* C19: Size, IsEmpty and Peek read the queue's fields only under the lock
\* that Offer, Poll and Clear hold: none of them reads while another
\* goroutine is between the first and the last field update of such a call.
C19_ReadsSerialized == ~torn

\* A step in which worker w takes task t out of a non-empty queue.
Takes(w, t) ==
    /\ workerPc[w] = "poll"
    /\ workerPc'[w] # "poll"
    /\ Queued # <<>>
    /\ workerTask'[w] = t

\* C20: every occurrence put into the shared queue (initially or by Retry)
\* leaves it in exactly one worker's dequeue: a dequeue of a non-empty queue
\* removes one occurrence and hands it to the one worker that called it, no
\* other step removes anything, and no task is held or run by more workers
\* than there are occurrences of it.
C20_NoDoubleDispatch ==
    /\ [](\A t \in AllTask \ {zero} :
            invoked[t] + Pending(t) <= Count(taskList, t) + retried[t])
    /\ [][/\ \A t \in AllTask :
                Count(Queued', t) =
                    Count(Queued, t) + (retried'[t] - retried[t])
                    - Cardinality({w \in Workers : Takes(w, t)})
           /\ \A w \in Workers :
                (workerPc[w] = "poll" /\ workerPc'[w] # "poll" /\ Queued # <<>>) =>
                    /\ Len(Queued') = Len(Queued) - 1
                    /\ \A v \in Workers \ {w} : workerTask'[v] = workerTask[v]]_vars

\* C20 witness: two workers have dequeued at the same time from a queue of
\* two equal tasks, each holds one occurrence, the queue is empty.
C20_Witness ==
    /\ concurrent = 2
    /\ taskList = <<1, 1>>
    /\ \A w \in Workers : workerPc[w] = "add" /\ workerTask[w] = 1
    /\ IsEmpty(taskQueue)

\* ---------------------------------------------------------------- C21..C30
\* Workers that hold a result their collection step has not yet handled.
Collecting(r) ==
    Cardinality({w \in Workers : workerPc[w] = "collect" /\ workerResult[w] = r})

\* C21: results are complete on normal completion.  On a returnable pool whose
\* tasks are distinct and non-zero, whose routines return non-zero results and
\* call neither Retry nor Interrupt, and that receives no termination signal,
\* the slice Start returns holds the result of every task exactly once, and
\* IsAllDone() is true once Start has returned.
C21_ResultsComplete ==
    (/\ startPc = "done"
     /\ outcome = "Completed"
     /\ NonZero(taskList) /\ Distinct(taskList)
     /\ Sum(retried, AllTask) = 0
     /\ resultCount[zero] = 0
     /\ ~isInterrupt
     /\ signalPc = "wait")
    => /\ \A i \in 1..Len(taskList) : Count(returnedList, taskList[i]) = 1
       /\ IsAllDone

C22_WitnessCollectEmpty ==
    /\ ~ignoreEmpty
    /\ Count(resultList, zero) > 0
    /\ \E r \in AllTask \ {zero} : Count(resultList, r) > 0
    /\ Len(resultList) = Sum(returned, AllTask)
    /\ startPc = "done"

\* C23: the automatic saving stops with the pool.  With automatic saving
\* enabled and DisableTaskAutoSave not called, once Start has returned the
\* saving loop begins no further SaveTaskList call.
C23_AutoSaveStops ==
    [][(startPc = "done" /\ saveTicker.state = "running")
          => ~(autoSave.pc = "wait" /\ autoSave'.pc = "queued")]_vars

\* C24: a failed save is not fatal.  The step at which SaveTaskList returns an
\* error to the saving loop changes neither the interrupt flag, the queue, the
\* running set, the ticker nor the position of Start or of a worker; the loop
\* is waiting for the next tick afterwards and, whenever after an error a
\* tick is there, begins the next SaveTaskList call.
C24_SaveErrorNonFatal ==
    /\ [][(autoSave.pc = "write" /\ saveResult' = "error" /\ autoSave' # autoSave)
             => /\ autoSave'.pc = "wait"
                /\ UNCHANGED <<isInterrupt, taskQueue, runningTasks, saveTicker,
                               startPc, workerPc, workerShutdown>>]_vars
    /\ []((saveResult = "error" /\ autoSave.pc \notin {"queued", "running", "write"}
             /\ saveTicker.C = 1)
            => ENABLED SaveReceive)

\* After a failed save the loop has begun the next SaveTaskList call.
C24_Witness == saveResult = "error" /\ autoSave.pc = "queued"

\* The elements of a list.
Members(list) == {list[i] : i \in 1..Len(list)}

\* C25: GetAllTaskList is the de-duplicated union.  Its first part takes the
\* queue's content as it is at that instant, its second part returns a list
\* without repetition whose elements are those taken from the queue and those
\* in the running set at that instant, hence exactly the union of the two
\* containers when the queue has not changed in between; neither part changes
\* the queue or the running set.
C25_AllTaskList ==
    [][/\ (autoSave.pc = "queued" /\ autoSave'.pc = "running")
             => /\ autoSave'.queued = Queued
                /\ UNCHANGED <<taskQueue, runningTasks>>
       /\ (autoSave.pc = "running" /\ autoSave'.pc = "write")
             => /\ Distinct(autoSave'.all)
                /\ Members(autoSave'.all) = Members(autoSave.queued) \cup runningTasks
                /\ (autoSave.queued = Queued
                       => Members(autoSave'.all) = QueuedTasks \cup runningTasks)
                /\ UNCHANGED <<taskQueue, runningTasks>>]_vars

\* GetAllTaskList has returned two tasks, one of which was both in the queue
\* and in the running set.
C25_Witness ==
    /\ autoSave.pc = "write"
    /\ Len(autoSave.all) = 2
    /\ \E t \in runningTasks : t \in Members(autoSave.queued)

\* C26: order of an external cancellation.  The signal goroutine sets the
\* interrupt flag only in the step that follows the return of the shutdown
\* callback, so while the callback runs the flag is not set by the
\* notification; Start has the outcome Interrupted without a routine having
\* called Interrupt only when the goroutine has finished; and the goroutine
\* leaves the callback only towards the flag's assignment, which sets it.
C26_ShutdownBeforeInterrupt ==
    /\ [][/\ (~isInterrupt /\ isInterrupt' /\ interruptedBy' = interruptedBy)
                => (signalPc = "interrupt" /\ signalPc' = "exit")
          /\ signalPc = "shutdown" => signalPc' \in {"shutdown", "interrupt"}
          /\ signalPc = "interrupt" => (signalPc' = "interrupt" \/ isInterrupt')]_vars
    /\ []((outcome = "Interrupted" /\ interruptedBy = zero) => signalPc = "exit")

\* A termination signal alone has interrupted the pool and Start has returned.
C26_Witness ==
    /\ startPc = "done"
    /\ outcome = "Interrupted"
    /\ interruptedBy = zero
    /\ signalPc = "exit"
    /\ isInterrupt

\* C27: no resumption.  Once Start has returned interrupted on a pool without
\* zero-valued tasks, no step takes a task out of the queue or changes the
\* queue, and no routine invocation begins, whether Start is called again or
\* not.
C27_NoResumption ==
    [][(isInterrupt /\ outcome = "Interrupted" /\ NonZero(taskList))
          => (Queued' = Queued /\ invoked' = invoked)]_vars

\* Every task has finished: the queue is empty, no worker holds a task it has
\* taken, no routine invocation is in progress.
AllFinished ==
    /\ IsEmpty(taskQueue)
    /\ \A w \in Workers : workerPc[w] \notin {"add", "run", "remove"}

\* C28: lifetime of the lookup hook.  On a pool without zero-valued tasks a
\* lookup invocation begins only in the control loop of Start, and neither
\* after every task has finished nor after the pool has been interrupted.
C28_LookupLifetime ==
    [][(NonZero(taskList) /\ startPc = "lookup" /\ startPc' = "loop")
          => (~isInterrupt /\ ~AllFinished)]_vars

\* The non-zero tasks taken out of the queue so far: those whose routine has
\* been entered and those a worker holds for it.
Taken == Sum(invoked, AllTask) + Cardinality({w \in Workers : workerPc[w] = "add"})
\* No more tasks than this are ever taken out of a queue.
MaxTaken == InterruptListLen + MaxRetry

\* The control loop of Start runs, the workers are not stopped, the queue is
\* not empty and fewer than `concurrent` routine invocations are in progress.
Starved ==
    /\ startPc \in {"loop", "isEmpty", "size", "lookup"}
    /\ ~workerShutdown
    /\ Queued # <<>>
    /\ Cardinality(InRoutine) < concurrent

C30_AddIdempotent ==
    call.op = "add" =>
        LET x == call.item
        IN /\ contains(runningTasks, x)
           /\ size(runningTasks) <= size(call.before) + 1
           /\ \A y \in AllTask \ {x} :
                 contains(runningTasks, y) = contains(call.before, y)
           /\ contains(call.before, x) => runningTasks = call.before
           /\ add(runningTasks, x) = runningTasks
           /\ ~contains(remove(add(runningTasks, x), x), x)

\* add(x) has been called on a set of several members that contained x.
C30_Witness ==
    /\ call.op = "add"
    /\ contains(call.before, call.item)
    /\ size(runningTasks) > 1

\* ---------------------------------------------------------------- C31..C40
\* C31: a zero-valued task.  A task equal to the zero value of T is taken out
\* of the queue by a worker's dequeue and dropped: it is never in the running
\* set, no worker holds it for a routine, its routine is never invoked, and no
\* step puts a zero value (back) into the queue.
C31_ZeroTaskDropped ==
    /\ [](/\ invoked[zero] = 0
          /\ ~contains(runningTasks, zero)
          /\ \A w \in Workers :
                workerPc[w] \in {"add", "run", "remove"} => workerTask[w] # zero)
    /\ [][Count(Queued', zero) <= Count(Queued, zero)]_vars

\* The pool has completed although a zero-valued task of its list never ran.
C31_Witness ==
    /\ startPc = "done"
    /\ outcome = "Completed"
    /\ Count(taskList, zero) > 0
    /\ Count(Queued, zero) = 0
    /\ invoked[zero] = 0
    /\ \E t \in AllTask \ {zero} : returned[t] > 0

\* C32: workers stop after their current task.  Once the worker stop flag is
\* true, no worker takes a task out of the queue of a pool without
\* zero-valued tasks.
C32_NoDequeueAfterStop ==
    [][(workerShutdown /\ NonZero(taskList)) => Len(Queued') >= Len(Queued)]_vars

\* What the Polls of a queue return until it is empty.
RECURSIVE Drain(_)
Drain(q) == IF IsEmpty(q) THEN <<>>
            ELSE <<Poll(q).element>> \o Drain(Poll(q).queue)

\* C37: the queue's snapshot.  In every queue state ToSlice returns `size`
\* elements, those the Polls of the queue return, in that order, which are
\* the elements put in and not taken out, oldest first; a ToSlice call leaves
\* the head index, the size and the buffer as they are.
C37_SnapshotOrdered ==
    /\ [](/\ Len(ToSlice(queue)) = Size(queue)
          /\ ToSlice(queue) = Drain(queue)
          /\ call.op = "ToSlice" => call.ret = fifo)
    /\ [][call'.op = "ToSlice" => queue' = queue]_vars

\* ToSlice has been called on a full queue whose content wraps around the end
\* of the buffer, and on an empty one.
C37_Witness ==
    /\ call.op = "ToSlice"
    /\ Len(call.ret) = 3
    /\ queueFull(queue)
    /\ queue.front = 2
C37_WitnessEmpty ==
    /\ call.op = "ToSlice"
    /\ call.ret = <<>>
    /\ queue.front > 0

\* C38: Peek agrees with Poll.  Peek returns the oldest element put in and not
\* taken out, or the zero value if there is none, and changes no field of the
\* queue; the Poll that follows a Peek returns what the Peek returned.
C38_PeekAgreesWithPoll ==
    /\ [](call.op = "Peek" => call.ret = IF fifo = <<>> THEN zero ELSE Head(fifo))
    /\ [][/\ call'.op = "Peek" => queue' = queue
          /\ (call.op = "Peek" /\ call'.op = "Poll") => call'.ret = call.ret]_vars

\* Peek has been called on a queue with several elements whose head is not in
\* the first slot of the buffer.
C38_Witness ==
    /\ call.op = "Peek"
    /\ call.ret # zero
    /\ queue.front = 2
    /\ Len(fifo) >= 2

\* C39: Clear.  After a Clear the size is 0, IsEmpty is true, ToSlice is empty
\* and Poll returns the zero value; and in every state the Polls of the queue
\* return the elements put in since the last Clear and not taken out, in the
\* order they were put in.
C39_ClearResets ==
    /\ call.op = "Clear" =>
          /\ Size(queue) = 0
          /\ IsEmpty(queue)
          /\ ToSlice(queue) = <<>>
          /\ Poll(queue).element = zero
    /\ Drain(queue) = fifo

\* A queue that held elements has been cleared and elements have been put in
\* since, over the slots of the cleared ones.
C39_Witness ==
    /\ call.op = "Offer"
    /\ Len(fifo) = 2
    /\ offers = 4
    /\ queue.front = 0
    /\ queue.data[1] = fifo[1]

\* C35: the shutdown callback.  The callback is entered only by the waiting
\* signal goroutine on a received signal, while Start has not closed the
\* channel, and not again once it has been left; without a callback there is
\* no such goroutine; and when Start closes the channel on a goroutine that
\* still waits, the goroutine ends without the callback and without a change
\* of the interrupt flag.
C35_ShutdownOnlyOnSignal ==
    /\ [][/\ (signalPc' = "shutdown" /\ signalPc # "shutdown")
                => (signalPc = "wait" /\ startPc # "done")
          /\ signalPc \in {"interrupt", "exit"} => signalPc' \notin {"wait", "shutdown"}
          /\ (startPc # "done" /\ startPc' = "done" /\ signalPc = "wait")
                => (signalPc' = "exit" /\ isInterrupt' = isInterrupt)]_vars
    /\ [](~shutdown => signalPc = "none")

\* A pool with a shutdown callback has completed, respectively has been
\* interrupted by a routine, and Start has closed the channel on the waiting
\* goroutine: the flag is as the pool left it.
C35_Witness ==
    /\ shutdown
    /\ startPc = "done"
    /\ outcome = "Completed"
    /\ signalPc = "exit"
    /\ ~isInterrupt
    /\ \E t \in AllTask : returned[t] > 0
C35_WitnessInterrupt ==
    /\ shutdown
    /\ startPc = "done"
    /\ outcome = "Interrupted"
    /\ interruptedBy # zero
    /\ signalPc = "exit"

\* C36: the empty pool.  On a pool made from an empty task list IsAllDone is
\* true in every state, no routine is ever invoked, the interrupt flag is set
\* by nothing but a received termination signal, and Start returns.
C36_EmptyPool ==
    /\ [](taskList = <<>> =>
             /\ IsAllDone
             /\ Sum(invoked, AllTask) = 0
             /\ isInterrupt => signalPc = "exit")
    /\ <>(taskList = <<>> => startPc = "done")

\* Start has returned on an empty pool, completed and not interrupted.
C36_Witness ==
    /\ taskList = <<>>
    /\ startPc = "done"
    /\ outcome = "Completed"
    /\ ~isInterrupt

\* C36, returnable variant: the result list of an empty pool stays empty, and
\* so is the slice Start returns.
C36_ReturnableEmpty == taskList = <<>> => (resultList = <<>> /\ returnedList = <<>>)

\* Every result a routine invocation has returned, and that is to be
\* collected, is in the result list.
AllCollected ==
    /\ \A r \in AllTask \ {zero} : Count(resultList, r) = resultCount[r]
    /\ ~ignoreEmpty => Count(resultList, zero) = resultCount[zero]

\* C34, as claimed: the result is recorded before the task leaves the running
\* set.  Whenever the running set is empty and no worker is between its
\* dequeue and its add, the result list holds the results of all finished
\* invocations.
C34_ResultBeforeRemoveAnyTasks ==
    (runningTasks = {} /\ \A w \in Workers : workerPc[w] # "add") => AllCollected

\* C34, for pools whose tasks are distinct and not retried.
C34_ResultBeforeRemove ==
    (/\ Distinct(taskList) /\ Sum(retried, AllTask) = 0
     /\ runningTasks = {} /\ \A w \in Workers : workerPc[w] # "add")
    => AllCollected

\* Two workers have each finished a task and recorded its result, and the
\* running set is empty again.
C34_Witness ==
    /\ Distinct(taskList)
    /\ Sum(retried, AllTask) = 0
    /\ runningTasks = {}
    /\ Len(resultList) = 2
    /\ workerPc[1] = "check" /\ workerPc[2] = "check"
    /\ workerResult[1] # zero /\ workerResult[2] # zero

\* C40: DisableTaskAutoSave halts the automatic saving.  Once the ticker has
\* been stopped, the saving loop neither begins a SaveTaskList call nor
\* completes one with a write.
C40_DisableHaltsSaving ==
    [][saveTicker.state = "stopped"
          => /\ ~(autoSave.pc = "wait" /\ autoSave'.pc = "queued")
             /\ ~(autoSave.pc = "write" /\ autoSave'.pc = "wait")]_vars

\* C33: the snapshot of the running set never deadlocks.  While a toSlice
\* call is in progress, some goroutine inside a method of the set, the
\* caller of toSlice or a worker in add or remove, can take its next step.
C33_SnapshotNeverDeadlocks == reader.pc # "idle" => ENABLED InsideStep
====
